---- MODULE Spec2Model ----
(***************************************************************************)
(* Model of models/db_connector.py of the Upside Funding dashboard: the    *)
(* scoped database connections, the roster query and its post-processing,  *)
(* the payout resolver, the deal-to-position reconstruction and the trade  *)
(* analytics.                                                              *)
(*                                                                         *)
(* Encoding.  A Python/SQL value is a tagged record: Null is SQL NULL and  *)
(* Python None, Missing is a key that the raw row does not have, Num(n) is *)
(* a number and Str(s) a string, s being the sequence of its tokens (a     *)
(* token is a character or a word that the code treats as a unit).  Money  *)
(* amounts are integers.  A payout fraction is kept in hundredths (85 is   *)
(* 0.85), gain_loss_pct in thousandths of a percent, pot_liability in      *)
(* hundredths of the money unit.  Floating-point overflow and NaN are not  *)
(* modelled.                                                               *)
(***************************************************************************)
EXTENDS Integers, Sequences, FiniteSets, TLC

VARIABLES
    op,          \* the core operation that was invoked ("none" before a call)
    pc,          \* the position reached in it
    scope,       \* the `with` block it is in ("none" outside of one)
    conns,       \* the database connections that are open
    nconn,       \* how many connections the operation has opened so far
    arg,         \* the argument of the operation
    db,          \* the database contents the operation's queries read
    rows,        \* get_roster's local `rows` (get_trader_analytics' raw_deals)
    payout_map,  \* get_roster's local `payout_map`
    result,      \* what the operation returned
    exc,         \* the exception that left the operation ("none" if none)
    log          \* what happened on the way (failures met, calls made)

vars == <<op, pc, scope, conns, nconn, arg, db, rows, payout_map, result, exc, log>>

----------------------------------------------------------------------------
(* Values *)

Null == [t |-> "null"]
Missing == [t |-> "missing"]
Num(n) == [t |-> "num", n |-> n]
Str(s) == [t |-> "str", s |-> s]
\* A string that is a well-formed JSON array of objects with a title and a value.
Json(items) == [t |-> "json", items |-> items]

IsNum(v) == v.t = "num"
IsStr(v) == v.t = "str"

\* dict.get(key): a missing key reads as None.
Get(row, key) == IF row[key].t = "missing" THEN Null ELSE row[key]

\* Python truthiness of None, a number or a string (a JSON text is a string
\* that is not empty).
Truthy(v) ==
    CASE v.t = "num" -> v.n # 0
      [] v.t = "str" -> v.s # <<>>
      [] v.t = "json" -> TRUE
      [] OTHER -> FALSE

\* Python `a or b`.
Or(a, b) == IF Truthy(a) THEN a ELSE b

Digits == {"0", "1", "2", "3", "4", "5", "6", "7", "8", "9"}

DigitVal(d) ==
    CASE d = "0" -> 0 [] d = "1" -> 1 [] d = "2" -> 2 [] d = "3" -> 3
      [] d = "4" -> 4 [] d = "5" -> 5 [] d = "6" -> 6 [] d = "7" -> 7
      [] d = "8" -> 8 [] d = "9" -> 9

\* The sequence s without the tokens in `drop`.
RECURSIVE Without(_, _)
Without(s, drop) ==
    IF s = <<>> THEN <<>>
    ELSE IF Head(s) \in drop THEN Without(Tail(s), drop)
    ELSE <<Head(s)>> \o Without(Tail(s), drop)

\* The longest run of digits that starts s.
RECURSIVE DigitRun(_)
DigitRun(s) ==
    IF s = <<>> \/ Head(s) \notin Digits THEN <<>>
    ELSE <<Head(s)>> \o DigitRun(Tail(s))

\* The number a sequence of digits writes.
RECURSIVE DigitsValue(_)
DigitsValue(s) ==
    IF s = <<>> THEN 0
    ELSE DigitsValue(SubSeq(s, 1, Len(s) - 1)) * 10 + DigitVal(s[Len(s)])

\* Is p a prefix of s?
StartsWith(s, p) == Len(s) >= Len(p) /\ SubSeq(s, 1, Len(p)) = p

\* n / d rounded to the nearest integer, halves to the even one (d > 0).
Round(n, d) ==
    LET q == n \div d
        r == n % d
    IN  IF 2 * r < d THEN q
        ELSE IF 2 * r > d THEN q + 1
        ELSE IF q % 2 = 0 THEN q ELSE q + 1

----------------------------------------------------------------------------
(* Roster post-processing *)

HOUSE_ACCOUNT_EMAIL == <<"analytics", "@", "theupsidefunding.com">>
PHASE_ORDER ==
    << <<"House Account">>, <<"Funded">>, <<"Phase", " ", "2">>, <<"1-Step">>,
       <<"Phase", " ", "1">>, <<"UNKNOWN">> >>

\* The payout fraction of an account that the payout map does not hold (0.85).
DefaultPayout == 85
\* The fraction of an account with an upsell (0.95).
UpgradedPayout == 95

\* _extract_category_amount: the first run of digits of the label, '$' and ','
\* removed; None for a falsy label or a label without a digit.
RECURSIVE FirstDigitRun(_)
FirstDigitRun(s) ==
    IF s = <<>> THEN <<>>
    ELSE IF Head(s) \in Digits THEN DigitRun(s)
    ELSE FirstDigitRun(Tail(s))

_extract_category_amount(category_str) ==
    IF ~Truthy(category_str) THEN Null
    ELSE LET cleaned == IF IsStr(category_str)
                        THEN Without(category_str.s, {"$", ","})
                        ELSE <<>>
             run == FirstDigitRun(cleaned)
         IN  IF IsNum(category_str) THEN Num(category_str.n)
             ELSE IF run = <<>> THEN Null ELSE Num(DigitsValue(run))

\* _to_float: None for a value float() rejects (None, an unparseable string)
\* and for one that parses to zero.  An unparseable string is Str(..); a
\* numeric string or number is Num(..).
_to_float(val) ==
    IF IsNum(val) THEN (IF val.n = 0 THEN Null ELSE val)
    ELSE Null

\* Mutant of PotLiability: the guard on the sign of the change is lost.
PotLiability_NoChangeGuard(phase, change, payout_pct) ==
    IF phase = Str(<<"Funded">>) THEN change * payout_pct ELSE 0

\* pot_liability of _process_rows (hundredths): change * payout_pct only for a
\* Funded account with a positive change.
PotLiability(phase, change, payout_pct) ==
    IF phase = Str(<<"Funded">>) /\ change > 0 THEN change * payout_pct ELSE 0

\* Mutant of PayoutOf: an account that the map does not hold gets the upgraded
\* fraction.
PayoutOf_DefaultUpgraded(pm, login) ==
    IF IsNum(login) /\ login.n \in DOMAIN pm THEN pm[login.n] ELSE UpgradedPayout

\* payout_map.get(login, 0.85); payout_map is a function from logins.
PayoutOf(pm, login) ==
    IF IsNum(login) /\ login.n \in DOMAIN pm THEN pm[login.n] ELSE DefaultPayout

\* The body of the loop of _process_rows for one raw row: "skip" for a TEST NEW
\* account, "KeyError" when row['Phase'] finds no key, else the processed row.
ProcessRow(row, pm) ==
    LET title == IF Truthy(Get(row, "title")) THEN Get(row, "title").s ELSE <<>>
        account_size == _to_float(Get(row, "Account_Size"))
        category_amount == _extract_category_amount(Get(row, "category"))
        starting_balance == Or(account_size, category_amount)
        current_equity ==
            Or(Or(_to_float(Get(row, "Margin_Equity")),
                  _to_float(Get(row, "Daily_Equity"))),
               _to_float(Get(row, "Challenges_Balance")))
        change == IF Truthy(current_equity) /\ Truthy(starting_balance)
                  THEN current_equity.n - starting_balance.n ELSE 0
        gain_loss_pct == IF Truthy(starting_balance)
                         THEN Round(change * 100 * 1000, starting_balance.n)
                         ELSE 0
        login == Get(row, "login")
        payout_pct == PayoutOf(pm, login)
        phase == IF Get(row, "email") # Str(HOUSE_ACCOUNT_EMAIL)
                 THEN row["Phase"] ELSE Str(<<"House Account">>)
    IN  IF StartsWith(title, <<"TEST NEW">>) THEN [kind |-> "skip"]
        ELSE IF phase = Missing THEN [kind |-> "KeyError"]
        ELSE [kind |-> "row",
              login |-> login,
              category |-> Get(row, "category"),
              phase |-> phase,
              email |-> Get(row, "email"),
              starting_balance |-> IF Truthy(starting_balance) THEN starting_balance.n ELSE 0,
              current_equity |-> IF Truthy(current_equity) THEN current_equity.n ELSE 0,
              change |-> change,
              gain_loss_pct |-> gain_loss_pct,
              pot_liability |-> PotLiability(phase, change, payout_pct),
              payout_pct |-> payout_pct,
              status |-> Get(row, "status")]

\* _process_rows: the processed rows in the order of the raw rows, or the
\* KeyError of the first row that raises.
RECURSIVE _process_rows(_, _)
_process_rows(rs, pm) ==
    IF rs = <<>> THEN [exc |-> "none", val |-> <<>>]
    ELSE LET first == ProcessRow(Head(rs), pm)
             rest == _process_rows(Tail(rs), pm)
         IN  IF first.kind = "KeyError" THEN [exc |-> "KeyError", val |-> <<>>]
             ELSE IF rest.exc # "none" THEN rest
             ELSE IF first.kind = "skip" THEN rest
             ELSE [exc |-> "none", val |-> <<first>> \o rest.val]

----------------------------------------------------------------------------
(* The state before any operation is invoked *)

Idle ==
    /\ op = "none" /\ pc = "idle" /\ scope = "none" /\ conns = {} /\ nconn = 0
    /\ arg = Null /\ rows = <<>> /\ payout_map = <<>>
    /\ result = Null /\ exc = "none" /\ log = {}

----------------------------------------------------------------------------
(* _process_rows on one raw row of any shape *)

\* The largest money amount of a raw row.
MaxAmount == 2
\* The account logins.
Logins == {1, 2}

\* What a numeric column of a raw row may hold: no key, NULL, a string that
\* float() rejects, or a number.
RawAmounts == {Missing, Null, Str(<<"n/a">>)} \cup {Num(n) : n \in 0..MaxAmount}

\* What the columns later in the fallback chains may hold.
RawFallbackAmounts == {Missing, Null, Str(<<"n/a">>), Num(0), Num(MaxAmount)}

RawCategories == {Missing, Str(<<"Live">>), Str(<<"$", " ", "1", ",", "0">>)}

RawPhases == {Missing, Null, Str(<<"Funded">>), Str(<<"Phase", " ", "1">>)}

RawTitles == {Missing, Str(<<"TEST NEW", " ", "Funded">>), Str(<<"Funded">>)}

RawEmails == {Missing, Str(HOUSE_ACCOUNT_EMAIL), Str(<<"a", "@", "b.c">>)}

RawLogins == {Missing, Num(1)}

RawRows ==
    [Phase : RawPhases, title : RawTitles, email : RawEmails,
     category : RawCategories, Account_Size : RawAmounts,
     Margin_Equity : RawAmounts, Daily_Equity : RawFallbackAmounts,
     Challenges_Balance : RawFallbackAmounts, login : RawLogins,
     status : {Str(<<"PLAYING">>)}]

\* The payout maps: a fraction for some of the logins.
PayoutMapsOf(logins) ==
    UNION {[ls -> {DefaultPayout, UpgradedPayout}] : ls \in SUBSET logins}

InitRows ==
    /\ op = "_process_rows" /\ pc = "call" /\ scope = "none" /\ conns = {} /\ nconn = 0
    /\ arg \in [row : RawRows, payout_map : PayoutMapsOf({1})]
    /\ db = Null /\ rows = <<>> /\ payout_map = <<>>
    /\ result = Null /\ exc = "none" /\ log = {}

CallProcessRows ==
    /\ op = "_process_rows" /\ pc = "call"
    /\ LET r == _process_rows(<<arg.row>>, arg.payout_map)
       IN  /\ result' = r.val
           /\ exc' = r.exc
           /\ pc' = IF r.exc = "none" THEN "returned" ELSE "raised"
    /\ UNCHANGED <<op, scope, conns, nconn, arg, db, rows, payout_map, log>>

NextRows == CallProcessRows

SpecRows == InitRows /\ [][NextRows]_vars

\* The rows _process_rows returned.
ProcessedRows ==
    IF op = "_process_rows" /\ pc = "returned"
    THEN {result[i] : i \in 1..Len(result)} ELSE {}

\* C4: in every row that _process_rows produces, a positive pot_liability
\* implies phase = Funded and change > 0, and in every other case the
\* pot_liability is 0, never negative.
ThmC4_PotLiabilityOnlyFundedGain ==
    \A r \in ProcessedRows :
        /\ r.pot_liability > 0 => (r.phase = Str(<<"Funded">>) /\ r.change > 0)
        /\ r.pot_liability <= 0 => r.pot_liability = 0
        /\ ~(r.phase = Str(<<"Funded">>) /\ r.change > 0) => r.pot_liability = 0

\* C4 witness: a Funded row with a gain and a positive pot_liability, produced
\* from a raw row whose payout map holds its login.
WitC4_FundedGain ==
    \E r \in ProcessedRows :
        /\ r.pot_liability > 0 /\ r.phase = Str(<<"Funded">>)
        /\ r.payout_pct = UpgradedPayout

\* C7 (as claimed): _process_rows never raises, whatever field of the raw row
\* is missing, null or unparseable.
CexC7_ProcessRowsNeverRaises ==
    op = "_process_rows" => pc # "raised"

----------------------------------------------------------------------------
(* Deal-to-position reconstruction *)

\* A quotient that the code computes in floating point, kept exact.
Frac(n, d) == [num |-> n, den |-> d]
FracEq(a, b) == a.num * b.den = b.num * a.den

\* The sum of a sequence of numbers.
RECURSIVE Sum(_)
Sum(s) == IF s = <<>> THEN 0 ELSE Head(s) + Sum(Tail(s))

\* A column of a frame: the values of one field, row by row.
Column(df, field) == [i \in DOMAIN df |-> df[i][field]]

\* The row-wise product of two columns.
Times(a, b) == [i \in DOMAIN a |-> a[i] * b[i]]

Min(S) == CHOOSE x \in S : \A y \in S : x <= y
Max(S) == CHOOSE x \in S : \A y \in S : x >= y

\* The elements of a finite set of integers in ascending order.
RECURSIVE SortedSeq(_)
SortedSeq(S) == IF S = {} THEN <<>> ELSE <<Min(S)>> \o SortedSeq(S \ {Min(S)})

\* Mutant of ProfitLoss: the net profit of the opening deals is left out.
ProfitLoss_ClosesOnly(pos_opens, pos_closes) ==
    Sum(Column(pos_closes, "net_profit"))

\* profit_loss of a position: the net profit of its open side plus that of
\* its close side.
ProfitLoss(pos_opens, pos_closes) ==
    Sum(Column(pos_opens, "net_profit"))
        + Sum(Column(pos_closes, "net_profit"))

\* completed = open_positions.intersection(close_positions)
CompletedPositions(open_positions, close_positions) ==
    open_positions \cap close_positions

\* Mutant of EntryTime: the time of the first opening deal.
EntryTime_First(pos_opens) == pos_opens[1].time

\* entry_time: pos_opens['time'].min()
EntryTime(pos_opens) == Min({pos_opens[i].time : i \in DOMAIN pos_opens})

\* The position that the loop body builds for position_id.
PositionOf(opens, closes, position_id) ==
    LET pos_opens == SelectSeq(opens, LAMBDA d : d.Position_ID = position_id)
        pos_closes == SelectSeq(closes, LAMBDA d : d.Position_ID = position_id)
        total_volume == Sum(Column(pos_opens, "Volume"))
        entry_price == IF total_volume > 0
                       THEN Frac(Sum(Times(Column(pos_opens, "price"), Column(pos_opens, "Volume"))),
                                 total_volume)
                       ELSE Frac(0, 1)
        exit_price == IF total_volume > 0
                      THEN Frac(Sum(Times(Column(pos_closes, "price"), Column(pos_closes, "Volume"))),
                                total_volume)
                      ELSE Frac(0, 1)
        entry_time == EntryTime(pos_opens)
        exit_time == Max({pos_closes[i].time : i \in DOMAIN pos_closes})
    IN  [position_id |-> position_id,
         symbol |-> pos_opens[1].symbol,
         action |-> pos_opens[1].Action,
         entry_time |-> entry_time,
         exit_time |-> exit_time,
         entry_price |-> entry_price,
         exit_price |-> exit_price,
         volume |-> total_volume,
         profit_loss |-> ProfitLoss(pos_opens, pos_closes),
         hold_time_minutes |-> IF exit_time > entry_time
                               THEN Frac(exit_time - entry_time, 60)
                               ELSE Frac(0, 1)]

\* _process_deals_to_positions: one position for each completed position id
\* whose two sides are not empty.  The code appends them in the iteration order
\* of a Python set; the model lists them by ascending id.  Times are seconds.
_process_deals_to_positions(df) ==
    LET opens == SelectSeq(df, LAMBDA d : d.Entry_Exit = "OPEN")
        closes == SelectSeq(df, LAMBDA d : d.Entry_Exit = "CLOSE")
        open_positions == {opens[i].Position_ID : i \in DOMAIN opens}
        close_positions == {closes[i].Position_ID : i \in DOMAIN closes}
        completed == CompletedPositions(open_positions, close_positions)
        kept == {p \in completed :
                    /\ \E i \in DOMAIN opens : opens[i].Position_ID = p
                    /\ \E i \in DOMAIN closes : closes[i].Position_ID = p}
        ids == SortedSeq(kept)
    IN  [i \in 1..Len(ids) |-> PositionOf(opens, closes, ids[i])]

\* The most deals in a frame of raw deals.
MaxDeals == 3

PositionIds == {1, 2}

\* Entry_Exit as the query writes it: entry 0 is 'OPEN', 1 and 3 are 'CLOSE',
\* and any other entry code (2, in/out) stays as it is.
EntryExits == {"OPEN", "CLOSE", "2"}

\* The raw deals of a frame: fills that differ in price, or fills that differ
\* in net profit.
PricedDeals ==
    [Position_ID : PositionIds, Entry_Exit : EntryExits, Volume : {1, 2},
     price : {1, 2}, net_profit : {2}, time : {1}, symbol : {"EURUSD"},
     Action : {"BUY"}]

ProfitDeals ==
    [Position_ID : PositionIds, Entry_Exit : EntryExits, Volume : {1, 2},
     price : {1}, net_profit : {-1, 2}, time : {1}, symbol : {"EURUSD"},
     Action : {"BUY"}]

\* Fills of one position that differ in time, symbol and direction.
MixedDeals ==
    [Position_ID : {1}, Entry_Exit : {"OPEN", "CLOSE"}, Volume : {1},
     price : {1}, net_profit : {2}, time : {1, 2}, symbol : {"EURUSD", "XAUUSD"},
     Action : {"BUY", "SELL"}]

\* ORDER BY a.position_id, a.time
OrderedDeals(df) ==
    \A i \in 1..(Len(df) - 1) :
        \/ df[i].Position_ID < df[i + 1].Position_ID
        \/ /\ df[i].Position_ID = df[i + 1].Position_ID
           /\ df[i].time <= df[i + 1].time

InitDeals ==
    /\ op = "_process_deals_to_positions" /\ pc = "call" /\ scope = "none" /\ conns = {} /\ nconn = 0
    /\ \E n \in 0..MaxDeals, deals \in {PricedDeals, ProfitDeals} :
            arg \in [1..n -> deals]
    /\ OrderedDeals(arg)
    /\ db = Null /\ rows = <<>> /\ payout_map = <<>>
    /\ result = Null /\ exc = "none" /\ log = {}

CallProcessDeals ==
    /\ op = "_process_deals_to_positions" /\ pc = "call"
    /\ result' = _process_deals_to_positions(arg)
    /\ pc' = "returned"
    /\ UNCHANGED <<op, scope, conns, nconn, arg, db, rows, payout_map, exc, log>>

NextDeals == CallProcessDeals

SpecDeals == InitDeals /\ [][NextDeals]_vars

\* _process_deals_to_positions on the fills of one position.
InitReorder ==
    /\ op = "_process_deals_to_positions" /\ pc = "call" /\ scope = "none" /\ conns = {} /\ nconn = 0
    /\ \E n \in 0..MaxDeals : arg \in [1..n -> MixedDeals]
    /\ OrderedDeals(arg)
    /\ db = Null /\ rows = <<>> /\ payout_map = <<>>
    /\ result = Null /\ exc = "none" /\ log = {}

NextReorder == CallProcessDeals

SpecReorder == InitReorder /\ [][NextReorder]_vars

\* The indices of the deals of one position on the given sides.
DealsOn(df, position_id, sides) ==
    {i \in DOMAIN df : df[i].Position_ID = position_id /\ df[i].Entry_Exit \in sides}

\* The sum of df[i][field] * df[i][weight] over the indices in I ("one" for
\* no weight).
RECURSIVE Total(_, _, _, _)
Total(df, I, field, weight) ==
    IF I = {} THEN 0
    ELSE LET i == CHOOSE j \in I : TRUE
         IN  df[i][field] * (IF weight = "one" THEN 1 ELSE df[i][weight])
                 + Total(df, I \ {i}, field, weight)

\* The positions _process_deals_to_positions returned.
Positions ==
    IF op = "_process_deals_to_positions" /\ pc = "returned"
    THEN {result[i] : i \in DOMAIN result} ELSE {}

\* One position for each id with both an OPEN and a CLOSE deal, none for the
\* other ids, and each position's volume is the sum of its OPEN volumes.
OnePositionPerCompletedId ==
    (op = "_process_deals_to_positions" /\ pc = "returned") =>
        \A p \in PositionIds :
            LET n == Cardinality({i \in DOMAIN result : result[i].position_id = p})
            IN  /\ n = (IF DealsOn(arg, p, {"OPEN"}) # {} /\ DealsOn(arg, p, {"CLOSE"}) # {}
                        THEN 1 ELSE 0)
                /\ \A i \in DOMAIN result :
                       result[i].position_id = p =>
                           result[i].volume = Total(arg, DealsOn(arg, p, {"OPEN"}), "Volume", "one")

\* C8 (as claimed): ... and profit_loss is the sum of net profit over all the
\* deals of the position.
CexC8_ProfitOverAllDeals ==
    /\ OnePositionPerCompletedId
    /\ \A r \in Positions :
           r.profit_loss =
               Total(arg, DealsOn(arg, r.position_id, EntryExits), "net_profit", "one")

\* C8 (amended): _process_deals_to_positions returns exactly one position for
\* each position_id that has at least one OPEN and one CLOSE deal and none for
\* an id on one side only; its volume is the sum of the open-side volumes and
\* its profit_loss is the sum of net profit over the OPEN and CLOSE deals of
\* that position (a deal with any other entry code is left out).
ThmC8_PositionsOfCompletedIds ==
    /\ OnePositionPerCompletedId
    /\ \A r \in Positions :
           r.profit_loss =
               Total(arg, DealsOn(arg, r.position_id, {"OPEN", "CLOSE"}), "net_profit", "one")

\* C8 witness: a position was reconstructed from two opening fills and other
\* fills whose net profits differ.
WitC8_TwoOpensOneClose ==
    \E r \in Positions :
        /\ Cardinality(DealsOn(arg, r.position_id, {"OPEN"})) = 2
        /\ \E i, j \in DealsOn(arg, r.position_id, {"OPEN", "CLOSE"}) :
               arg[i].net_profit # arg[j].net_profit

\* C9 (as claimed): entry_price is the volume-weighted average of the open-side
\* prices and exit_price that of the close-side prices, each side weighted by
\* its own volumes.
CexC9_VolumeWeightedPrices ==
    \A r \in Positions :
        LET O == DealsOn(arg, r.position_id, {"OPEN"})
            C == DealsOn(arg, r.position_id, {"CLOSE"})
        IN  /\ FracEq(r.entry_price,
                      Frac(Total(arg, O, "price", "Volume"), Total(arg, O, "Volume", "one")))
            /\ FracEq(r.exit_price,
                      Frac(Total(arg, C, "price", "Volume"), Total(arg, C, "Volume", "one")))

----------------------------------------------------------------------------
(* Trade analytics *)

\* float('inf'): a quotient with denominator 0.
Inf == Frac(1, 0)

FracOf(n) == Frac(n, 1)
FracMul(a, b) == Frac(a.num * b.num, a.den * b.den)
FracSub(a, b) == Frac(a.num * b.den - b.num * a.den, a.den * b.den)
FracAbs(a) == Frac(IF a.num < 0 THEN -a.num ELSE a.num, IF a.den < 0 THEN -a.den ELSE a.den)
\* a / b for b # 0.
FracDiv(a, b) ==
    IF b.num < 0 THEN Frac(-(a.num * b.den), -(a.den * b.num))
    ELSE Frac(a.num * b.den, a.den * b.num)
FracPos(a) == a.num * a.den > 0

\* round(x, digits) of a finite x, in units of 10^-digits.
Rounded(x, digits) ==
    LET scale == IF digits = 1 THEN 10 ELSE IF digits = 2 THEN 100 ELSE 1000
    IN  Round(x.num * scale, x.den)

\* Series.mean() of a non-empty column.
Mean(col) == Frac(Sum(col), Len(col))

\* The mean of a non-empty column of quotients.
RECURSIVE FracSum(_)
FracSum(col) ==
    IF col = <<>> THEN FracOf(0)
    ELSE LET rest == FracSum(Tail(col))
         IN  Frac(Head(col).num * rest.den + rest.num * Head(col).den,
                  Head(col).den * rest.den)
FracMean(col) == FracDiv(FracSum(col), FracOf(Len(col)))

\* Mutant of Reported: the infinite value is rounded like a number and
\* returned as the float inf.
Reported_NoSentinel(x) ==
    IF x = Inf THEN [t |-> "inf"] ELSE Num(Rounded(x, 2))

\* round(x, 2) if x != float('inf') else 'Infinite'
Reported(x) ==
    IF x # Inf THEN Num(Rounded(x, 2)) ELSE Str(<<"Infinite">>)

\* profit_factor before it is reported.
ProfitFactor(gross_profit, gross_loss) ==
    IF gross_loss > 0 THEN Frac(gross_profit, gross_loss)
    ELSE IF gross_profit > 0 THEN Inf ELSE FracOf(0)

\* risk_reward before it is reported.
RiskReward(avg_win, avg_loss) ==
    IF avg_loss.num # 0 THEN FracAbs(FracDiv(avg_win, avg_loss))
    ELSE IF FracPos(avg_win) THEN Inf ELSE FracOf(0)

\* The statistics shared by the whole frame and by the frame of one symbol.
FrameStats(df) ==
    LET wins == SelectSeq(df, LAMBDA r : r.profit_loss > 0)
        losses == SelectSeq(df, LAMBDA r : r.profit_loss < 0)
        total == Len(df)
    IN  [total |-> total,
         wins |-> wins,
         losses |-> losses,
         win_rate |-> IF total > 0 THEN Frac(Len(wins) * 100, total) ELSE FracOf(0),
         pnl |-> Sum(Column(df, "profit_loss")),
         avg_win |-> IF wins # <<>> THEN Mean(Column(wins, "profit_loss")) ELSE FracOf(0),
         avg_loss |-> IF losses # <<>> THEN Mean(Column(losses, "profit_loss")) ELSE FracOf(0)]

\* trade_expectancy = win_rate/100 * avg_win - loss_rate/100 * abs(avg_loss)
TradeExpectancy(st) ==
    LET loss_rate == IF st.total > 0 THEN Frac(Len(st.losses) * 100, st.total) ELSE FracOf(0)
    IN  FracSub(FracMul(FracMul(st.win_rate, Frac(1, 100)), st.avg_win),
                FracMul(FracMul(loss_rate, Frac(1, 100)), FracAbs(st.avg_loss)))

\* symbol_expectancy = symbol_win_rate/100 * symbol_avg_win
\*                     - (100 - symbol_win_rate)/100 * abs(symbol_avg_loss)
SymbolExpectancy(st) ==
    FracSub(FracMul(FracMul(st.win_rate, Frac(1, 100)), st.avg_win),
            FracMul(FracMul(FracSub(FracOf(100), st.win_rate), Frac(1, 100)),
                    FracAbs(st.avg_loss)))

\* The symbols in the order groupby lists them (sorted keys).
SymbolOrder == <<"EURUSD", "XAUUSD">>

\* s with x inserted before the first element whose key is below x's: one
\* step of a stable sort by descending key.
RECURSIVE InsertDesc(_, _)
InsertDesc(s, x) ==
    IF s = <<>> THEN <<x>>
    ELSE IF Head(s).key < x.key THEN <<x>> \o s
    ELSE <<Head(s)>> \o InsertDesc(Tail(s), x)

\* sorted(s, key=..., reverse=True) for records with an integer field key.
RECURSIVE SortedDesc(_)
SortedDesc(s) ==
    IF s = <<>> THEN <<>>
    ELSE InsertDesc(SortedDesc(SubSeq(s, 1, Len(s) - 1)), s[Len(s)])

\* The row of symbol_breakdown for one symbol.
SymbolRow(df, symbol) ==
    LET st == FrameStats(SelectSeq(df, LAMBDA r : r.symbol = symbol))
    IN  [symbol |-> symbol,
         total_trades |-> st.total,
         win_rate |-> Rounded(st.win_rate, 1),
         total_pnl |-> st.pnl * 100,
         avg_win |-> Rounded(st.avg_win, 2),
         avg_loss |-> Rounded(st.avg_loss, 2),
         expectancy |-> Rounded(SymbolExpectancy(st), 2),
         key |-> Rounded(SymbolExpectancy(st), 2)]

SymbolBreakdown(df) ==
    LET present == SelectSeq(SymbolOrder,
                             LAMBDA y : \E i \in DOMAIN df : df[i].symbol = y)
    IN  SortedDesc([i \in DOMAIN present |-> SymbolRow(df, present[i])])

\* _calculate_analytics_metrics: the empty dict for no position, else the
\* metrics.  Rates and hold times are in tenths, money and ratios in
\* hundredths.
_calculate_analytics_metrics(positions) ==
    IF positions = <<>> THEN <<>>
    ELSE
    LET st == FrameStats(positions)
        gross_profit == IF st.wins # <<>> THEN Sum(Column(st.wins, "profit_loss")) ELSE 0
        gross_loss == IF st.losses # <<>>
                      THEN (LET x == Sum(Column(st.losses, "profit_loss"))
                            IN  IF x < 0 THEN -x ELSE x)
                      ELSE 0
        pnls == {positions[i].profit_loss : i \in DOMAIN positions}
    IN  [total_trades |-> st.total,
         winning_trades |-> Len(st.wins),
         losing_trades |-> Len(st.losses),
         win_rate |-> Rounded(st.win_rate, 1),
         total_pnl |-> st.pnl * 100,
         avg_pnl |-> Rounded(Frac(st.pnl, st.total), 2),
         avg_win |-> Rounded(st.avg_win, 2),
         avg_loss |-> Rounded(st.avg_loss, 2),
         largest_win |-> Max(pnls) * 100,
         largest_loss |-> Min(pnls) * 100,
         profit_factor |-> Reported(ProfitFactor(gross_profit, gross_loss)),
         risk_reward |-> Reported(RiskReward(st.avg_win, st.avg_loss)),
         trade_expectancy |-> Rounded(TradeExpectancy(st), 2),
         avg_hold_minutes |-> Rounded(FracMean(Column(positions, "hold_time_minutes")), 1),
         avg_winner_hold_minutes |->
             Rounded(IF st.wins # <<>> THEN FracMean(Column(st.wins, "hold_time_minutes"))
                     ELSE FracOf(0), 1),
         avg_loser_hold_minutes |->
             Rounded(IF st.losses # <<>> THEN FracMean(Column(st.losses, "hold_time_minutes"))
                     ELSE FracOf(0), 1),
         symbol_breakdown |-> SymbolBreakdown(positions)]

\* The most positions in the input of the analytics.
MaxPositions == 3
\* The profit or loss of a position.
Pnls == {-3, -1, 0, 1, 2}

\* The fields of a position that the analytics read.
MetricPositions ==
    [profit_loss : Pnls, symbol : {"EURUSD", "XAUUSD"},
     hold_time_minutes : {Frac(0, 1), Frac(90, 60)}]

InitMetrics ==
    /\ op = "_calculate_analytics_metrics" /\ pc = "call" /\ scope = "none" /\ conns = {} /\ nconn = 0
    /\ \E n \in 0..MaxPositions : arg \in [1..n -> MetricPositions]
    /\ db = Null /\ rows = <<>> /\ payout_map = <<>>
    /\ result = Null /\ exc = "none" /\ log = {}

CallCalculateMetrics ==
    /\ op = "_calculate_analytics_metrics" /\ pc = "call"
    /\ result' = _calculate_analytics_metrics(arg)
    /\ pc' = "returned"
    /\ UNCHANGED <<op, scope, conns, nconn, arg, db, rows, payout_map, exc, log>>

NextMetrics == CallCalculateMetrics

SpecMetrics == InitMetrics /\ [][NextMetrics]_vars

\* The gross profit and gross loss of the input, as the claim names them.
GrossProfit == Sum(Column(SelectSeq(arg, LAMBDA r : r.profit_loss > 0), "profit_loss"))
GrossLoss == -Sum(Column(SelectSeq(arg, LAMBDA r : r.profit_loss < 0), "profit_loss"))
NumWins == Len(SelectSeq(arg, LAMBDA r : r.profit_loss > 0))
NumLosses == Len(SelectSeq(arg, LAMBDA r : r.profit_loss < 0))

Metrics ==
    op = "_calculate_analytics_metrics" /\ pc = "returned" /\ result # <<>>

\* C10: profit_factor is 'Infinite' exactly when gross loss is zero and gross
\* profit is positive, 0 when both are zero, and otherwise the number gross
\* profit / gross loss (reported to two decimals); risk_reward is 'Infinite'
\* exactly when the average loss is zero (there is no losing position) and the
\* average win is positive (there is a winning one), and otherwise the number
\* |average win / average loss| or 0; neither is ever a numeric infinity.
ThmC10_InfiniteSentinel ==
    Metrics =>
        /\ (result.profit_factor = Str(<<"Infinite">>)) <=> (GrossLoss = 0 /\ GrossProfit > 0)
        /\ (GrossLoss = 0 /\ GrossProfit = 0) => result.profit_factor = Num(0)
        /\ GrossLoss > 0 =>
               result.profit_factor = Num(Round(GrossProfit * 100, GrossLoss))
        /\ (result.risk_reward = Str(<<"Infinite">>)) <=> (NumLosses = 0 /\ NumWins > 0)
        /\ NumLosses > 0 =>
               result.risk_reward =
                   Num(Round(GrossProfit * NumLosses * 100,
                             GrossLoss * (IF NumWins = 0 THEN 1 ELSE NumWins)))
        /\ (NumLosses = 0 /\ NumWins = 0) => result.risk_reward = Num(0)
        /\ IsNum(result.profit_factor) \/ result.profit_factor = Str(<<"Infinite">>)
        /\ IsNum(result.risk_reward) \/ result.risk_reward = Str(<<"Infinite">>)

\* Winning positions and no losing one: both ratios are the sentinel.
WitC10_WinsOnly ==
    Metrics /\ GrossLoss = 0 /\ GrossProfit > 0
            /\ result.profit_factor = Str(<<"Infinite">>)
            /\ result.risk_reward = Str(<<"Infinite">>)

----------------------------------------------------------------------------
(* The databases and the queries *)

\* A database is a set of rows, each tagged with its table.  The rows of
\* challenge_accounts, traders and challenge_types that belong together are
\* one row of "accounts"; "payouts" holds the rows the payout query returns.
Table(d, name) == {r \in d : r.table = name}

\* LIKE '%x%', `x in s`: the token x occurs in s.
Contains(s, x) == \E i \in DOMAIN s : s[i] = x

\* REGEXP_SUBSTR(title, 'Phase [0-9]+'): the first match, NULL if none.
RECURSIVE PhaseNumber(_)
PhaseNumber(s) ==
    IF Len(s) < 3 THEN Null
    ELSE IF s[1] = "Phase" /\ s[2] = " " /\ s[3] \in Digits
         THEN Str(<<"Phase", " ">> \o DigitRun(Tail(Tail(s))))
         ELSE PhaseNumber(Tail(s))

\* The CASE of ROSTER_QUERY that classifies a title; every LIKE on a NULL
\* title is unknown, so a NULL title falls to ELSE.
PhaseCase(title) ==
    IF title = Null THEN Str(<<"UNKNOWN">>)
    ELSE IF Contains(title.s, "1-Step") THEN Str(<<"1-Step">>)
    ELSE IF Contains(title.s, "Phase") THEN PhaseNumber(title.s)
    ELSE IF Contains(title.s, "Funded") THEN Str(<<"Funded">>)
    ELSE IF Contains(title.s, "2Step_No") THEN Str(<<"Phase", " ", "1">>)
    ELSE Str(<<"UNKNOWN">>)

\* LEFT JOIN: the matching rows, or one row of NULLs when there is none.
LeftJoin(matching, nulls) == IF matching = {} THEN {nulls} ELSE matching

NoMargin == [Equity |-> Null]
NoDaily == [date_time |-> Null, equity |-> Null, daily_balance |-> Null]
NoAccount == [title |-> Null, category |-> Null, email |-> Null, status |-> Null]

\* f_latest: the rows that ROW_NUMBER may rank first among the snapshots of a
\* login with a date_time, ordered by date_time DESC.
LatestDaily(d, login) ==
    LET ds == {r \in Table(d, "daily") : r.login = login /\ r.date_time # Null}
    IN  {r \in ds : \A o \in ds : o.date_time.n <= r.date_time.n}

\* f_earliest: likewise among the snapshots with a date_time and a
\* daily_balance, ordered by date_time ASC.
EarliestDaily(d, login) ==
    LET ds == {r \in Table(d, "daily") :
                  r.login = login /\ r.date_time # Null /\ r.daily_balance # Null}
    IN  {r \in ds : \A o \in ds : r.date_time.n <= o.date_time.n}

\* WHERE e.status IN ('PLAYING', 'REVIEW')
ActiveChallenges(d) ==
    {e \in Table(d, "CHALLENGES") : e.status \in {"PLAYING", "REVIEW"}}

\* The joined rows of the inner SELECT for one login, before ranking.
JoinedRows(d, login) ==
    {[ID |-> e.ID,
      login |-> Num(e.login),
      title |-> b.title,
      category |-> b.category,
      Account_Size |-> fe.daily_balance,
      Margin_Equity |-> a.Equity,
      Daily_Equity |-> fl.equity,
      Challenges_Balance |-> e.balance,
      Phase |-> PhaseCase(b.title),
      email |-> b.email,
      status |-> b.status] :
        e \in {c \in ActiveChallenges(d) : c.login = login},
        a \in LeftJoin({m \in Table(d, "margin") : m.login = login}, NoMargin),
        fl \in LeftJoin(LatestDaily(d, login), NoDaily),
        fe \in LeftJoin(EarliestDaily(d, login), NoDaily),
        b \in LeftJoin({c \in Table(d, "accounts") : c.number = login}, NoAccount)}

\* The one-to-one enumerations of a finite set.
Orderings(S) ==
    {f \in [1..Cardinality(S) -> S] : \A i, j \in DOMAIN f : f[i] = f[j] => i = j}

\* ROW_NUMBER() OVER (PARTITION BY e.login ORDER BY e.ID DESC): the rankings
\* of the joined rows of a login; rows with the same ID rank in any order.
Rankings(J) ==
    {f \in Orderings(J) : \A i, j \in DOMAIN f : i < j => f[i].ID >= f[j].ID}

\* Mutant of WhereRankOne: the outer WHERE is lost.
WhereRankOne_All(ranked) == DOMAIN ranked

\* WHERE rn = 1: the ranks that the outer SELECT keeps.
WhereRankOne(ranked) == {rn \in DOMAIN ranked : rn = 1}

\* A row of the result: the joined row without the ID, with its rank.
RankedRow(j, rn) ==
    [login |-> j.login, title |-> j.title, category |-> j.category,
     Account_Size |-> j.Account_Size, Margin_Equity |-> j.Margin_Equity,
     Daily_Equity |-> j.Daily_Equity, Challenges_Balance |-> j.Challenges_Balance,
     Phase |-> j.Phase, email |-> j.email, status |-> j.status, rn |-> rn]

ActiveLogins(d) == {e.login : e \in ActiveChallenges(d)}

\* ROSTER_QUERY: the lists of rows it may return.  The query has no ORDER BY,
\* so the rows come in any order.
RosterQuery(d) ==
    LET logins == ActiveLogins(d)
        picks == {f \in [logins -> UNION {Rankings(JoinedRows(d, l)) : l \in logins}] :
                     \A l \in logins : f[l] \in Rankings(JoinedRows(d, l))}
    IN  UNION {Orderings(UNION {{RankedRow(f[l][rn], rn) : rn \in WhereRankOne(f[l])} :
                                    l \in logins}) :
                   f \in picks}

\* The payout query: one row per account number with its upsell aggregate.
PayoutQuery(d) == Table(d, "payouts")

\* json.loads of an aggregate raises when the text is not well-formed JSON.
ParseFails(upsale_json) == Truthy(upsale_json) /\ upsale_json.t # "json"

\* The fraction that the loop body of get_payout_percentages gives one row:
\* 0.95 if the aggregate parses and holds an item with a truthy title and a
\* value that is not null, else 0.85.
UpsaleFraction(upsale_json) ==
    IF ~Truthy(upsale_json) THEN DefaultPayout
    ELSE IF ParseFails(upsale_json) THEN DefaultPayout
    ELSE IF \E i \in DOMAIN upsale_json.items :
                /\ Truthy(upsale_json.items[i].title)
                /\ upsale_json.items[i].value # Null
         THEN UpgradedPayout
         ELSE DefaultPayout

\* The payout_map that the loop of get_payout_percentages builds.
PayoutMap(payout_rows) ==
    [login \in {r.number : r \in payout_rows} |->
        UpsaleFraction((CHOOSE r \in payout_rows : r.number = login).upsale_values)]

\* The index of an unlisted phase in the sort key of get_roster.
NoPhaseIndex == 999

\* phase_idx_map.get(phase, 999)
PhaseIndex(phase) ==
    IF \E i \in DOMAIN PHASE_ORDER : Str(PHASE_ORDER[i]) = phase
    THEN (CHOOSE i \in DOMAIN PHASE_ORDER : Str(PHASE_ORDER[i]) = phase) - 1
    ELSE NoPhaseIndex

\* The sort key (phase index, -gain_loss_pct) of a is below that of b.
KeyBelow(a, b) ==
    \/ PhaseIndex(a.phase) < PhaseIndex(b.phase)
    \/ /\ PhaseIndex(a.phase) = PhaseIndex(b.phase)
       /\ a.gain_loss_pct > b.gain_loss_pct

RECURSIVE InsertRow(_, _)
InsertRow(s, x) ==
    IF s = <<>> THEN <<x>>
    ELSE IF KeyBelow(x, Head(s)) THEN <<x>> \o s
    ELSE <<Head(s)>> \o InsertRow(Tail(s), x)

\* processed.sort(key=...): a stable sort.
RECURSIVE SortRoster(_)
SortRoster(s) ==
    IF s = <<>> THEN <<>>
    ELSE InsertRow(SortRoster(SubSeq(s, 1, Len(s) - 1)), s[Len(s)])

\* The loop of get_trader_roster_row: the first row with the login, else None.
FindRow(roster, login) ==
    IF \E i \in DOMAIN roster : roster[i].login = login
    THEN roster[CHOOSE i \in DOMAIN roster :
                    /\ roster[i].login = login
                    /\ \A j \in 1..(i - 1) : roster[j].login # login]
    ELSE Null

\* REPLACE(REPLACE(a.action, 0, 'BUY'), 1, 'SELL')
ActionOf(action) == IF action = 0 THEN "BUY" ELSE IF action = 1 THEN "SELL" ELSE "2"

\* REPLACE(REPLACE(REPLACE(a.entry, 0, 'OPEN'), 1, 'CLOSE'), 3, 'CLOSE')
EntryExitOf(entry) ==
    IF entry = 0 THEN "OPEN" ELSE IF entry \in {1, 3} THEN "CLOSE" ELSE "2"

\* '@' in identifier
IsEmail(identifier) == Contains(identifier.s, "@")

\* The query of get_trader_analytics: the deals of the trader with a nonzero
\* order, joined to the accounts of their login, by position and time.
AnalyticsQuery(d, identifier) ==
    LET joined ==
            UNION {{[login |-> a.login, Position_ID |-> a.position_id,
                     Action |-> ActionOf(a.action), Entry_Exit |-> EntryExitOf(a.entry),
                     time |-> a.time, symbol |-> a.symbol, price |-> a.price,
                     Volume |-> a.volume, net_profit |-> a.profit + a.commission,
                     Deal_ID |-> a.deal, challenge_type |-> b.title,
                     email |-> b.email] :
                       b \in LeftJoin({c \in Table(d, "accounts") : c.number = a.login},
                                      NoAccount)} :
                      a \in {x \in Table(d, "deals") : x.order # 0}}
        selected ==
            {r \in joined :
                IF IsEmail(identifier) THEN r.email = identifier
                ELSE r.login = DigitsValue(identifier.s)}
    IN  {f \in Orderings(selected) : OrderedDeals(f)}

\* The first n elements of a sequence (LIMIT n).
Limit(s, n) == SubSeq(s, 1, IF Len(s) < n THEN Len(s) ELSE n)

\* The query of get_deals: the latest deals of a login, newest first.
DealsQuery(d, login, limit) ==
    {Limit(f, limit) :
        f \in {g \in Orderings({x \in Table(d, "deals") : x.login = login}) :
                  \A i, j \in DOMAIN g : g[i].time > g[j].time => i < j}}

\* The query of get_daily_equity_series: the snapshots of a login by time.
SeriesQuery(d, login) ==
    LET selected == {x \in Table(d, "daily") : x.login = login /\ x.date_time # Null}
        ordered == {g \in Orderings(selected) :
                       \A i, j \in DOMAIN g :
                           g[i].date_time.n < g[j].date_time.n => i < j}
    IN  {[i \in DOMAIN f |-> [date |-> f[i].date_time, equity |-> f[i].equity,
                               daily_balance |-> f[i].daily_balance]] :
            f \in ordered}

----------------------------------------------------------------------------
(* The core operations, step by step *)

\* Mutant of ExitScope: the connection is closed when an error leaves the
\* block only.
ExitScope_RaisingOnly(cs, conn, raising) == IF raising THEN cs \ {conn} ELSE cs

\* Mutant of ExitScope: the connection is closed on a normal exit only.
ExitScope_NormalOnly(cs, conn, raising) == IF raising THEN cs ELSE cs \ {conn}

\* mt5_conn / prod_conn: `finally: conn.close()` runs however the block is
\* left.
ExitScope(cs, conn, raising) == cs \ {conn}

Operations ==
    {"get_roster", "get_payout_percentages", "get_trader_roster_row",
     "get_deals", "get_daily_equity_series", "get_trader_analytics"}

\* The `with` block an operation enters first.
FirstScope(o) ==
    CASE o \in {"get_roster", "get_trader_roster_row"} -> "roster"
      [] o = "get_payout_percentages" -> "payout"
      [] o = "get_deals" -> "deals"
      [] o = "get_daily_equity_series" -> "series"
      [] o = "get_trader_analytics" -> "analytics"

\* The default of the parameter `limit` of get_deals.
DefaultLimit == 50

\* The arguments an operation is invoked with.
ArgsOf(o) ==
    CASE o \in {"get_roster", "get_payout_percentages"} -> {Null}
      [] o \in {"get_trader_roster_row", "get_daily_equity_series"} ->
            {Num(l) : l \in Logins}
      [] o = "get_deals" -> [login : Logins, limit : {1, DefaultLimit}]
      [] o = "get_trader_analytics" ->
            {Str(<<"1">>), Str(<<"2">>), Str(<<"a", "@", "b.c">>)}

\* A failure met on the way, for the record.
Failure(event, login) == [event |-> event, login |-> login]

Invoke(o, a) ==
    /\ pc = "idle"
    /\ op' = o /\ arg' = a
    /\ scope' = FirstScope(o) /\ pc' = "enter"
    /\ UNCHANGED <<conns, nconn, db, rows, payout_map, result, exc, log>>

\* _get_conn returns a connection and the block is entered.
Connect ==
    /\ pc = "enter"
    /\ nconn' = nconn + 1
    /\ conns' = conns \cup {nconn + 1}
    /\ pc' = "body"
    /\ UNCHANGED <<op, scope, arg, db, rows, payout_map, result, exc, log>>

\* _get_conn raises: no connection was opened and the error leaves the
\* operation.
ConnectFails ==
    /\ pc = "enter" /\ scope # "payout"
    /\ exc' = "OperationalError"
    /\ log' = log \cup {Failure("connect", 0)}
    /\ pc' = "raised" /\ scope' = "none"
    /\ UNCHANGED <<op, conns, nconn, arg, db, rows, payout_map, result>>

\* get_payout_percentages has returned pm: it is the result of the operation
\* or the payout_map of get_roster, which goes on to process its rows.
AfterPayout(pm) ==
    /\ payout_map' = pm
    /\ scope' = "none"
    /\ IF op = "get_payout_percentages"
       THEN pc' = "returned" /\ result' = pm
       ELSE pc' = "process" /\ UNCHANGED result

\* _get_conn raises inside get_payout_percentages: `except Exception` returns
\* the empty map.
PayoutConnectFails ==
    /\ pc = "enter" /\ scope = "payout"
    /\ log' = log \cup {Failure("payout_connect", 0)}
    /\ AfterPayout(<<>>)
    /\ UNCHANGED <<op, conns, nconn, arg, db, rows, exc>>

\* cursor.execute raises inside a block.
QueryFails ==
    /\ pc = "body"
    /\ exc' = "OperationalError"
    /\ log' = log \cup {Failure(IF scope = "payout" THEN "payout_query" ELSE "query", 0)}
    /\ pc' = "unwind"
    /\ UNCHANGED <<op, scope, conns, nconn, arg, db, rows, payout_map, result>>

\* The error leaves the block, which closes the connection, and then the
\* operation.
Unwind ==
    /\ pc = "unwind" /\ scope # "payout"
    /\ conns' = ExitScope(conns, nconn, TRUE)
    /\ pc' = "raised" /\ scope' = "none"
    /\ UNCHANGED <<op, nconn, arg, db, rows, payout_map, result, exc, log>>

\* The error leaves the block of get_payout_percentages, which closes the
\* connection, and `except Exception` returns the empty map.
PayoutUnwind ==
    /\ pc = "unwind" /\ scope = "payout"
    /\ conns' = ExitScope(conns, nconn, TRUE)
    /\ exc' = "none"
    /\ AfterPayout(<<>>)
    /\ UNCHANGED <<op, nconn, arg, db, rows, log>>

\* get_roster: cursor.execute(ROSTER_QUERY); rows = cursor.fetchall()
RosterFetch ==
    /\ pc = "body" /\ scope = "roster"
    /\ rows' \in RosterQuery(db)
    /\ pc' = "exit"
    /\ UNCHANGED <<op, scope, conns, nconn, arg, db, payout_map, result, exc, log>>

\* get_roster leaves its block and calls get_payout_percentages.
ExitRoster ==
    /\ pc = "exit" /\ scope = "roster"
    /\ conns' = ExitScope(conns, nconn, FALSE)
    /\ scope' = "payout" /\ pc' = "enter"
    /\ UNCHANGED <<op, nconn, arg, db, rows, payout_map, result, exc, log>>

\* get_payout_percentages: the query and the loop over its rows; a row whose
\* aggregate does not parse keeps 0.85 (`except: pass`).
PayoutFetch ==
    /\ pc = "body" /\ scope = "payout"
    /\ payout_map' = PayoutMap(PayoutQuery(db))
    /\ log' = log \cup {Failure("payout_parse", r.number) :
                           r \in {x \in PayoutQuery(db) : ParseFails(x.upsale_values)}}
    /\ pc' = "exit"
    /\ UNCHANGED <<op, scope, conns, nconn, arg, db, rows, result, exc>>

\* `return payout_map` leaves the block.
ExitPayout ==
    /\ pc = "exit" /\ scope = "payout"
    /\ conns' = ExitScope(conns, nconn, FALSE)
    /\ AfterPayout(payout_map)
    /\ UNCHANGED <<op, nconn, arg, db, rows, exc, log>>

\* _process_rows and the sort of get_roster.
Roster(rs, pm) ==
    LET processed == _process_rows(rs, pm)
    IN  [exc |-> processed.exc, val |-> SortRoster(processed.val)]

\* get_roster: process, sort, return.
ProcessRoster ==
    /\ pc = "process" /\ op = "get_roster"
    /\ LET roster == Roster(rows, payout_map)
       IN  /\ exc' = roster.exc
           /\ result' = IF roster.exc = "none" THEN roster.val ELSE result
           /\ pc' = IF roster.exc = "none" THEN "returned" ELSE "raised"
    /\ UNCHANGED <<op, scope, conns, nconn, arg, db, rows, payout_map, log>>

\* get_trader_roster_row: get_roster has its roster; look the login up.
ProcessRosterRow ==
    /\ pc = "process" /\ op = "get_trader_roster_row"
    /\ LET roster == Roster(rows, payout_map)
       IN  /\ exc' = roster.exc
           /\ result' = IF roster.exc = "none" THEN FindRow(roster.val, arg) ELSE result
           /\ pc' = IF roster.exc = "none" THEN "returned" ELSE "raised"
    /\ UNCHANGED <<op, scope, conns, nconn, arg, db, rows, payout_map, log>>

\* get_deals: the query; fetchall() is the value to return.
DealsFetch ==
    /\ pc = "body" /\ scope = "deals"
    /\ rows' \in DealsQuery(db, arg.login, arg.limit)
    /\ pc' = "exit"
    /\ UNCHANGED <<op, scope, conns, nconn, arg, db, payout_map, result, exc, log>>

\* get_daily_equity_series: the query; fetchall() is the value to return.
SeriesFetch ==
    /\ pc = "body" /\ scope = "series"
    /\ rows' \in SeriesQuery(db, arg.n)
    /\ pc' = "exit"
    /\ UNCHANGED <<op, scope, conns, nconn, arg, db, payout_map, result, exc, log>>

\* get_deals, get_daily_equity_series: `return cursor.fetchall()` leaves the
\* block.
ExitReturn ==
    /\ pc = "exit" /\ scope \in {"deals", "series"}
    /\ conns' = ExitScope(conns, nconn, FALSE)
    /\ result' = rows
    /\ pc' = "returned" /\ scope' = "none"
    /\ UNCHANGED <<op, nconn, arg, db, rows, payout_map, exc, log>>

\* get_trader_analytics: the query; raw_deals = cursor.fetchall()
AnalyticsFetch ==
    /\ pc = "body" /\ scope = "analytics"
    /\ rows' \in AnalyticsQuery(db, arg)
    /\ pc' = "exit"
    /\ UNCHANGED <<op, scope, conns, nconn, arg, db, payout_map, result, exc, log>>

ExitAnalytics ==
    /\ pc = "exit" /\ scope = "analytics"
    /\ conns' = ExitScope(conns, nconn, FALSE)
    /\ pc' = "process" /\ scope' = "none"
    /\ UNCHANGED <<op, nconn, arg, db, rows, payout_map, result, exc, log>>

\* Mutant of Analytics: a trader whose positions all have a zero P&L gets
\* None.
Analytics_NoneWithoutPnl(raw_deals) ==
    LET processed_positions ==
            IF raw_deals = <<>> THEN <<>> ELSE _process_deals_to_positions(raw_deals)
    IN  IF \A i \in DOMAIN processed_positions : processed_positions[i].profit_loss = 0
        THEN Null
        ELSE [total_positions |-> Len(processed_positions)]

\* What get_trader_analytics returns for the raw deals it fetched: None for
\* no deal or no completed position, else the metrics with the trader and the
\* positions.
Analytics(raw_deals) ==
    IF raw_deals = <<>> THEN Null
    ELSE LET processed_positions == _process_deals_to_positions(raw_deals)
         IN  IF processed_positions = <<>> THEN Null
             ELSE _calculate_analytics_metrics(processed_positions)
                      @@ [trader_info |-> [login |-> raw_deals[1].login,
                                           email |-> raw_deals[1].email],
                          total_positions |-> Len(processed_positions),
                          positions |-> processed_positions]

ProcessAnalytics ==
    /\ pc = "process" /\ op = "get_trader_analytics"
    /\ result' = Analytics(rows)
    /\ pc' = "returned"
    /\ UNCHANGED <<op, scope, conns, nconn, arg, db, rows, payout_map, exc, log>>

\* The sets of at most k elements of P.
RECURSIVE SubsetsUpTo(_, _)
SubsetsUpTo(P, k) ==
    IF k = 0 THEN {{}}
    ELSE LET smaller == SubsetsUpTo(P, k - 1)
         IN  smaller \cup {s \cup {x} : s \in smaller, x \in P}

\* Keys are unique: the ID of CHALLENGES, the id of daily, the deal of deals,
\* and the payout query groups by account number.
WellFormed(d) ==
    /\ \A x, y \in Table(d, "CHALLENGES") : x.ID = y.ID => x = y
    /\ \A x, y \in Table(d, "daily") : x.id = y.id => x = y
    /\ \A x, y \in Table(d, "deals") : x.deal = y.deal => x = y
    /\ \A x, y \in Table(d, "payouts") : x.number = y.number => x = y

\* An aggregate that json.loads rejects, one with an upsell and one without.
Malformed == Str(<<"[{">>)
WithUpsell == Json(<<[title |-> Str(<<"Payout 95">>), value |-> Num(1)]>>)
WithoutUpsell == Json(<<[title |-> Null, value |-> Null]>>)

\* The most rows in a database that an operation is invoked on.
MaxRecords == 4

\* The rows such a database is made of.
Records ==
    {[table |-> "CHALLENGES", ID |-> l, login |-> l, status |-> "PLAYING",
      balance |-> Num(1)] : l \in Logins}
    \cup {[table |-> "accounts", number |-> 1, title |-> Str(<<"Funded">>),
           email |-> Str(<<"a", "@", "b.c">>), category |-> Str(<<"$", "1">>),
           status |-> Str(<<"active">>)]}
    \cup [table : {"payouts"}, number : Logins,
          upsale_values : {Malformed, WithUpsell, WithoutUpsell}]
    \cup {[table |-> "deals", deal |-> 2 * e + p + 1, login |-> 1, position_id |-> 1,
           order |-> 1, action |-> 0, entry |-> e, time |-> 1, symbol |-> "EURUSD",
           price |-> 1, volume |-> 1, profit |-> p, commission |-> 0] :
             e \in {0, 1}, p \in {0, 1}}
    \cup {[table |-> "daily", id |-> 1, login |-> 1, date_time |-> Num(1),
           equity |-> Num(2), daily_balance |-> Num(1)]}

Databases == {d \in SubsetsUpTo(Records, MaxRecords) : WellFormed(d)}

Init ==
    /\ Idle
    /\ db \in Databases

Next ==
    \/ \E o \in Operations : \E a \in ArgsOf(o) : Invoke(o, a)
    \/ Connect
    \/ ConnectFails
    \/ PayoutConnectFails
    \/ QueryFails
    \/ Unwind
    \/ PayoutUnwind
    \/ RosterFetch
    \/ ExitRoster
    \/ PayoutFetch
    \/ ExitPayout
    \/ ProcessRoster
    \/ ProcessRosterRow
    \/ DealsFetch
    \/ SeriesFetch
    \/ ExitReturn
    \/ AnalyticsFetch
    \/ ExitAnalytics
    \/ ProcessAnalytics

Spec == Init /\ [][Next]_vars

----------------------------------------------------------------------------
(* get_roster on the databases that the roster query can tell apart *)

\* The most rows in such a database.
MaxRosterRecords == 3

\* Challenge-type titles: one for each branch of the CASE, with 'Phase'
\* followed by 2, by 3 and by no number, and a TEST NEW title.
Titles ==
    {Null, Str(<<"Funded">>), Str(<<"TEST NEW", " ", "Funded">>),
     Str(<<"Phase", " ", "2">>), Str(<<"Phase", " ", "3">>),
     Str(<<"Phase", " ", "Two">>), Str(<<"1-Step">>), Str(<<"2Step_No">>),
     Str(<<"Swing">>)}

RosterRecords ==
    [table : {"CHALLENGES"}, ID : {1, 2}, login : Logins,
     status : {"PLAYING", "REVIEW", "FAILED"}, balance : {Num(1)}]
    \cup [table : {"accounts"}, number : Logins, title : Titles,
          email : {Str(<<"a", "@", "b.c">>)}, category : {Str(<<"$", "1">>)},
          status : {Str(<<"active">>)}]
    \cup [table : {"accounts"}, number : Logins, title : {Str(<<"Funded">>)},
          email : {Str(HOUSE_ACCOUNT_EMAIL)}, category : {Str(<<"$", "1">>)},
          status : {Str(<<"active">>)}]
    \cup [table : {"margin"}, login : {1}, Equity : {Num(2), Num(3)}]
    \cup {[table |-> "daily", id |-> i, login |-> 1, date_time |-> t,
           equity |-> Num(i), daily_balance |-> Num(1)] :
             i \in {1, 2}, t \in {Null, Num(1)}}
    \cup {[table |-> "payouts", number |-> 1, upsale_values |-> WithUpsell]}

RosterDatabases == {d \in SubsetsUpTo(RosterRecords, MaxRosterRecords) : WellFormed(d)}

InitRoster ==
    /\ Idle
    /\ db \in RosterDatabases

NextRoster ==
    \/ Invoke("get_roster", Null)
    \/ Connect
    \/ ConnectFails
    \/ PayoutConnectFails
    \/ QueryFails
    \/ Unwind
    \/ PayoutUnwind
    \/ RosterFetch
    \/ ExitRoster
    \/ PayoutFetch
    \/ ExitPayout
    \/ ProcessRoster

SpecRoster == InitRoster /\ [][NextRoster]_vars

----------------------------------------------------------------------------
(* Properties of the operations *)

\* C1: once a core operation has returned or has raised, the query itself
\* failing included, no connection that it opened is still open.
ThmC1_ConnectionsClosedOnExit ==
    pc \in {"returned", "raised"} => conns = {}

\* C1 witness: an operation raised because its query failed on the connection
\* that it had opened, and that connection is closed.
WitC1_RaisedAfterQueryFailure ==
    /\ pc = "raised" /\ nconn = 1 /\ Failure("query", 0) \in log
    /\ conns = {}

\* The payout query failed (the connection or the execution), or the
\* aggregate of the given account did not parse.
PayoutQueryFailed ==
    \E f \in log : f.event \in {"payout_connect", "payout_query"}
PayoutParseFailed(login) == Failure("payout_parse", login) \in log

\* Every row of the returned roster has payout_pct = 85.0.
AllRowsDefaultPayout ==
    \A i \in DOMAIN result : result[i].payout_pct = DefaultPayout

\* C2 (as claimed): if the payout query fails or the parsing of an account's
\* aggregate fails, get_payout_percentages raises nothing and returns an empty
\* mapping, and every row of the roster of get_roster has payout_pct = 85.0.
CexC2_AnyFailureEmptiesMap ==
    (PayoutQueryFailed \/ \E l \in Logins : PayoutParseFailed(l)) =>
        /\ pc # "raised"
        /\ (op = "get_payout_percentages" /\ pc = "returned") => result = <<>>
        /\ (op = "get_roster" /\ pc = "returned") =>
               (payout_map = <<>> /\ AllRowsDefaultPayout)

\* C2 (amended): get_payout_percentages never raises.  If the payout query
\* fails it returns the empty mapping, get_roster still returns its roster and
\* every row in it has payout_pct = 85.0.  If the parsing of one account's
\* aggregate fails, the mapping is not emptied: that account is mapped to 0.85
\* and its roster row has payout_pct = 85.0.
ThmC2_PayoutFailureDefaults ==
    /\ op = "get_payout_percentages" => pc # "raised"
    /\ (PayoutQueryFailed \/ \E l \in Logins : PayoutParseFailed(l)) => pc # "raised"
    /\ PayoutQueryFailed =>
           /\ (op = "get_payout_percentages" /\ pc = "returned") => result = <<>>
           /\ (op = "get_roster" /\ pc = "returned") =>
                  (payout_map = <<>> /\ AllRowsDefaultPayout)
    /\ \A l \in Logins :
           PayoutParseFailed(l) =>
               /\ (op = "get_payout_percentages" /\ pc = "returned") =>
                      (l \in DOMAIN result /\ result[l] = DefaultPayout)
               /\ (op = "get_roster" /\ pc = "returned") =>
                      \A i \in DOMAIN result :
                          result[i].login = Num(l) => result[i].payout_pct = DefaultPayout

\* C2 witness: get_roster returned a row at 85.0 for an account with an upsell,
\* because the payout query had failed.
WitC2_QueryFailureDefaultsUpsell ==
    /\ op = "get_roster" /\ pc = "returned" /\ Failure("payout_query", 0) \in log
    /\ \E i \in DOMAIN result :
           /\ result[i].payout_pct = DefaultPayout
           /\ \E r \in PayoutQuery(db) :
                  Num(r.number) = result[i].login /\ r.upsale_values = WithUpsell

\* The phases of the closed enumeration.
PhaseEnum == {Str(PHASE_ORDER[i]) : i \in DOMAIN PHASE_ORDER}

\* C3 (as claimed): every row that get_roster returns has a phase among House
\* Account, Funded, Phase 2, 1-Step, Phase 1 and UNKNOWN, whatever the title.
CexC3_PhaseInEnum ==
    (op = "get_roster" /\ pc = "returned") =>
        \A i \in DOMAIN result : result[i].phase \in PhaseEnum

\* How many rows of a list carry the login.
RowsOf(list, login) == Cardinality({i \in DOMAIN list : list[i].login = Num(login)})

\* C5 (as claimed): the roster of get_roster has exactly one row for each
\* active login (status PLAYING or REVIEW) and none for another login.
CexC5_OneRowPerActiveLogin ==
    (op = "get_roster" /\ pc = "returned") =>
        \A l \in Logins :
            RowsOf(result, l) = (IF l \in ActiveLogins(db) THEN 1 ELSE 0)

\* C5 (amended): the roster of get_roster has at most one row for a login,
\* whatever the number of matching administrative records, margin rows and
\* snapshots, and rows for active logins only; the query returns exactly one
\* row for each active login, and an active login is missing from the roster
\* exactly when the title of that row starts with 'TEST NEW'.
ThmC5_AtMostOneRowPerActiveLogin ==
    (op = "get_roster" /\ pc = "returned") =>
        \A l \in Logins :
            /\ RowsOf(rows, l) = (IF l \in ActiveLogins(db) THEN 1 ELSE 0)
            /\ RowsOf(result, l) <= RowsOf(rows, l)
            /\ \A i \in DOMAIN rows :
                   rows[i].login = Num(l) =>
                       (RowsOf(result, l) = 0
                            <=> /\ rows[i].title # Null
                                /\ StartsWith(rows[i].title.s, <<"TEST NEW">>))

\* C5 witness: a roster row for a login that has several joined rows.
WitC5_OneRowOfSeveral ==
    /\ op = "get_roster" /\ pc = "returned"
    /\ \E l \in Logins : RowsOf(result, l) = 1 /\ Cardinality(JoinedRows(db, l)) > 1

\* The position ids of the raw deals with a deal on each side.
CompletedIds(raw_deals) ==
    {raw_deals[i].Position_ID : i \in DOMAIN raw_deals} \cap
        {p \in PositionIds :
            /\ \E i \in DOMAIN raw_deals :
                   raw_deals[i].Position_ID = p /\ raw_deals[i].Entry_Exit = "OPEN"
            /\ \E i \in DOMAIN raw_deals :
                   raw_deals[i].Position_ID = p /\ raw_deals[i].Entry_Exit = "CLOSE"}

\* C6: get_trader_roster_row(login) returns None exactly when no roster row
\* has that login, get_trader_analytics(identifier) returns None exactly when
\* the trader has no deals or no completed position (so a trader with a
\* completed position gets a result even when every P&L is zero), and neither
\* raises anything but the error of a failed database call.
ThmC6_AbsentNotError ==
    /\ (op = "get_trader_roster_row" /\ pc = "returned") =>
           /\ result = Null <=>
                  ~\E i \in DOMAIN Roster(rows, payout_map).val :
                       Roster(rows, payout_map).val[i].login = arg
           /\ result # Null => result.login = arg
    /\ (op = "get_trader_analytics" /\ pc = "returned") =>
           (result = Null <=> CompletedIds(rows) = {})
    /\ (op \in {"get_trader_roster_row", "get_trader_analytics"} /\ pc = "raised") =>
           /\ exc = "OperationalError"
           /\ \E f \in log : f.event \in {"connect", "query"}

\* C6 witness: analytics for a trader whose completed positions all have a
\* zero P&L.
WitC6_ZeroPnlAnalytics ==
    /\ op = "get_trader_analytics" /\ pc = "returned" /\ result # Null
    /\ \A i \in DOMAIN result.positions : result.positions[i].profit_loss = 0

----------------------------------------------------------------------------
(* get_roster_summary *)

\* How many rows of the roster have the phase.
CountPhase(roster, phase) ==
    Cardinality({i \in DOMAIN roster : roster[i].phase = Str(phase)})

\* get_roster_summary: the counts per phase, the liability of the Funded rows,
\* the total equity and the equity-weighted average gain (thousandths of a
\* percent, rounded as round(x, 3) does), which is 0 unless total_equity > 0.
get_roster_summary(roster) ==
    LET funded_rows == SelectSeq(roster, LAMBDA r : r.phase = Str(<<"Funded">>))
        total_equity == Sum(Column(roster, "current_equity"))
        weighted == Sum(Times(Column(roster, "gain_loss_pct"),
                              Column(roster, "current_equity")))
    IN  [total |-> Len(roster),
         funded |-> CountPhase(roster, <<"Funded">>),
         phase2 |-> CountPhase(roster, <<"Phase", " ", "2">>),
         one_step |-> CountPhase(roster, <<"1-Step">>),
         phase1 |-> CountPhase(roster, <<"Phase", " ", "1">>),
         total_liability |-> Sum(Column(funded_rows, "pot_liability")),
         total_equity |-> total_equity,
         weighted_avg_gain_loss |->
             IF total_equity > 0 THEN Round(weighted, total_equity) ELSE 0]

\* The most rows in a roster that is summarised.
MaxSummaryRows == 3

\* The fields of a roster row that the summary reads; an equity can be
\* negative (an account in deficit).
SummaryRows ==
    [phase : {Str(<<"Funded">>), Str(<<"Phase", " ", "1">>)},
     gain_loss_pct : {-150000, 0, 33333},
     current_equity : {-2, 0, 1, 3},
     pot_liability : {85}]

InitSummary ==
    /\ op = "get_roster_summary" /\ pc = "call" /\ scope = "none"
    /\ conns = {} /\ nconn = 0
    /\ \E n \in 0..MaxSummaryRows : arg \in [1..n -> SummaryRows]
    /\ db = Null /\ rows = <<>> /\ payout_map = <<>>
    /\ result = Null /\ exc = "none" /\ log = {}

CallRosterSummary ==
    /\ op = "get_roster_summary" /\ pc = "call"
    /\ result' = get_roster_summary(arg)
    /\ pc' = "returned"
    /\ UNCHANGED <<op, scope, conns, nconn, arg, db, rows, payout_map, exc, log>>

NextSummary == CallRosterSummary

SpecSummary == InitSummary /\ [][NextSummary]_vars

\* The total equity of the summarised roster and its equity-weighted gain.
TotalEquity == Sum(Column(arg, "current_equity"))
WeightedGain == Sum(Times(Column(arg, "gain_loss_pct"), Column(arg, "current_equity")))

\* n / d rounded to the nearest integer, halves to the even one, for any d # 0.
RoundQuotient(n, d) == IF d > 0 THEN Round(n, d) ELSE Round(-n, -d)

\* C11 (as claimed): get_roster_summary returns weighted_avg_gain_loss =
\* sum(gain_loss_pct x current_equity) / sum(current_equity), rounded to 3
\* decimals, whenever the total equity is not zero, and 0 when it is zero.
CexC11_WeightedAverageUnlessZero ==
    (op = "get_roster_summary" /\ pc = "returned") =>
        result.weighted_avg_gain_loss =
            (IF TotalEquity # 0 THEN RoundQuotient(WeightedGain, TotalEquity) ELSE 0)

----------------------------------------------------------------------------
(* get_payout_percentages on any rows of the payout query *)

\* The most entries in an upsell aggregate.
MaxItems == 2

\* An aggregated entry: the title of the upsell (NULL, empty or a text) and
\* its value (NULL, false as 0 or true as 1).
UpsaleItems ==
    [title : {Null, Str(<<>>), Str(<<"Payout 95">>)},
     value : {Null, Num(0), Num(1)}]

\* What upsale_values may hold: NULL, a text that json.loads rejects, or an
\* array of entries.
UpsaleValues ==
    {Null, Malformed} \cup
        UNION {{Json(items) : items \in [1..n -> UpsaleItems]} : n \in 0..MaxItems}

\* The databases of the payout query: at most one row per account number.
PayoutDatabases ==
    {one \cup other :
        one \in {{}} \cup {{[table |-> "payouts", number |-> 1, upsale_values |-> u]} :
                              u \in UpsaleValues},
        other \in {{}, {[table |-> "payouts", number |-> 2,
                         upsale_values |-> WithUpsell]}}}

InitPayout ==
    /\ Idle
    /\ db \in PayoutDatabases

NextPayout ==
    \/ Invoke("get_payout_percentages", Null)
    \/ Connect
    \/ PayoutConnectFails
    \/ QueryFails
    \/ PayoutUnwind
    \/ PayoutFetch
    \/ ExitPayout

SpecPayout == InitPayout /\ [][NextPayout]_vars

\* An aggregate has an entry with a title and a value that are both not null.
HasTitledValue(upsale_json) ==
    /\ upsale_json # Null /\ upsale_json.t = "json"
    /\ \E i \in DOMAIN upsale_json.items :
           upsale_json.items[i].title # Null /\ upsale_json.items[i].value # Null

\* C12 (as claimed): get_payout_percentages maps each account of the payout
\* query result to 0.95 if an aggregated entry has both a non-null title and a
\* non-null value, whatever the title text and the value, and to 0.85
\* otherwise; no other fraction is produced.
CexC12_UpgradeForTitledValue ==
    (op = "get_payout_percentages" /\ pc = "returned" /\ ~PayoutQueryFailed) =>
        /\ DOMAIN result = {r.number : r \in PayoutQuery(db)}
        /\ \A r \in PayoutQuery(db) :
               result[r.number] =
                   (IF HasTitledValue(r.upsale_values) THEN UpgradedPayout
                    ELSE DefaultPayout)

----------------------------------------------------------------------------
(* Properties of the analytics and of the reconstruction *)

\* C13 (as claimed): the expectancy of each symbol of symbol_breakdown is the
\* formula of the overall trade expectancy scoped to the symbol, win_rate/100
\* x avg_win - loss_rate/100 x |avg_loss| with loss_rate = losing positions /
\* total positions x 100; so when all the positions have one symbol, that
\* symbol's expectancy equals trade_expectancy, zero P&L positions included.
CexC13_SymbolExpectancyAsOverall ==
    Metrics =>
        /\ \A i \in DOMAIN result.symbol_breakdown :
               LET row == result.symbol_breakdown[i]
                   scoped == SelectSeq(arg, LAMBDA r : r.symbol = row.symbol)
               IN  row.expectancy = Rounded(TradeExpectancy(FrameStats(scoped)), 2)
        /\ Len(result.symbol_breakdown) = 1 =>
               result.symbol_breakdown[1].expectancy = result.trade_expectancy

\* The reorderings of a frame of deals.
Reorderings(df) ==
    {[i \in DOMAIN df |-> df[pi[i]]] : pi \in Orderings(DOMAIN df)}

\* The positions that a frame yields, as a set.
PositionSet(df) ==
    LET ps == _process_deals_to_positions(df) IN {ps[i] : i \in DOMAIN ps}

\* A position without the fields taken from its first opening deal.
Unlabelled(p) ==
    [position_id |-> p.position_id, entry_time |-> p.entry_time,
     exit_time |-> p.exit_time, entry_price |-> p.entry_price,
     exit_price |-> p.exit_price, volume |-> p.volume,
     profit_loss |-> p.profit_loss, hold_time_minutes |-> p.hold_time_minutes]

\* The opening deals of each position agree on symbol and action.
UniformOpens(df) ==
    \A i, j \in DOMAIN df :
        (/\ df[i].Entry_Exit = "OPEN" /\ df[j].Entry_Exit = "OPEN"
         /\ df[i].Position_ID = df[j].Position_ID) =>
            (df[i].symbol = df[j].symbol /\ df[i].Action = df[j].Action)

\* C14 (as claimed): for any set of deals and any two orderings of it,
\* _process_deals_to_positions yields the same set of positions with the same
\* field values.
CexC14_OrderIndependent ==
    (op = "_process_deals_to_positions" /\ pc = "returned") =>
        \A g \in Reorderings(arg) : PositionSet(g) = Positions

\* C14 (amended): for any two orderings of a set of deals the positions have
\* the same entry/exit price, volume, profit_loss, entry/exit time and hold
\* time, and the same symbol and action too provided that the opening deals
\* of each position agree on symbol and action; otherwise symbol and action
\* are those of the opening deal that comes first in the input.
ThmC14_OrderIndependentButLabels ==
    (op = "_process_deals_to_positions" /\ pc = "returned") =>
        LET uniform == UniformOpens(arg)
            plain == {Unlabelled(p) : p \in Positions}
        IN  \A g \in Reorderings(arg) :
                LET ps == PositionSet(g)
                IN  /\ {Unlabelled(p) : p \in ps} = plain
                    /\ uniform => ps = Positions
                    /\ \A p \in ps :
                           \E i \in DOMAIN g :
                               /\ g[i].Entry_Exit = "OPEN"
                               /\ g[i].Position_ID = p.position_id
                               /\ \A j \in 1..(i - 1) :
                                      ~(/\ g[j].Entry_Exit = "OPEN"
                                        /\ g[j].Position_ID = p.position_id)
                               /\ p.symbol = g[i].symbol /\ p.action = g[i].Action

\* C14 witness: a position of two opening fills at different times, on one
\* symbol and in one direction, and a closing fill.
WitC14_TwoOpensAtDifferentTimes ==
    /\ UniformOpens(arg)
    /\ \E r \in Positions :
           \E i, j \in DealsOn(arg, r.position_id, {"OPEN"}) : arg[i].time # arg[j].time

\* Properties of the roster query and of the order of the steps of get_roster.

\* The snapshots of a login with a date_time that no other such snapshot of
\* the login follows, a later date_time or the same date_time and a higher id.
NewestSnapshots(d, login) ==
    LET ds == {r \in Table(d, "daily") : r.login = login /\ r.date_time # Null}
    IN  {r \in ds : \A o \in ds :
            \/ o.date_time.n < r.date_time.n
            \/ o.date_time.n = r.date_time.n /\ o.id <= r.id}

\* C15 (as claimed): the roster query joins for each login its latest
\* snapshot and, among several snapshots with the latest timestamp, the one
\* with the highest id, so the daily table determines Daily_Equity.
CexC15_LatestSnapshotHighestId ==
    (op = "get_roster" /\ pc \in {"process", "returned"}) =>
        \A i \in DOMAIN rows :
            \A l \in Logins :
                rows[i].login = Num(l) =>
                    rows[i].Daily_Equity \in
                        {r.equity : r \in LeftJoin(NewestSnapshots(db, l), NoDaily)}

\* The roster query of get_roster failed: its connection or its execution.
RosterQueryFailed == \E f \in log : f.event \in {"connect", "query"}

\* C16: within one get_roster call at most one connection is open at any
\* moment; the connection of the roster query is closed before
\* get_payout_percentages opens its own; when _process_rows reads the payout
\* map it is the complete map of the payout query, or the empty map after a
\* failure, and no connection is open; and if the roster query raises,
\* get_payout_percentages is never invoked.
ThmC16_SequentialSteps ==
    op = "get_roster" =>
        /\ Cardinality(conns) <= 1
        /\ scope = "roster" =>
               /\ nconn <= 1 /\ payout_map = <<>>
               /\ conns = (IF pc \in {"body", "exit", "unwind"} THEN {1} ELSE {})
        /\ scope = "payout" =>
               /\ nconn \in {1, 2} /\ 1 \notin conns
               /\ conns = (IF pc \in {"body", "exit", "unwind"} THEN {2} ELSE {})
               /\ pc = "enter" => conns = {} /\ nconn = 1
               /\ pc \in {"enter", "body", "unwind"} => payout_map = <<>>
        /\ (scope = "none" /\ pc \in {"process", "returned"}) =>
               /\ conns = {}
               /\ payout_map = (IF PayoutQueryFailed THEN <<>>
                                ELSE PayoutMap(PayoutQuery(db)))
        /\ RosterQueryFailed =>
               /\ pc \in {"unwind", "raised"} /\ scope \in {"roster", "none"}
               /\ nconn <= 1 /\ payout_map = <<>>
               /\ \A f \in log : f.event \in {"connect", "query"}

\* C16 witness: get_roster returned a roster after it had opened two
\* connections, one after the other, and processed its rows with the map of
\* the payout query.
WitC16_RosterAfterBothQueries ==
    /\ op = "get_roster" /\ pc = "returned"
    /\ nconn = 2 /\ conns = {}
    /\ payout_map # <<>> /\ result # <<>>

====
